---- MODULE Spec2Model ----
(***************************************************************************)
(* Model of skills/zed-extension-release/scripts/zed_extension_release.py  *)
(*                                                                         *)
(* A run of the release script is a state machine: pc is the position of   *)
(* main(), disk the files of the working directory, git the repository and *)
(* its remote.  Texts are sequences of lexemes: a lexeme is one character  *)
(* (" ", "\n", "#", "-", "=", "\"", "x") or a literal word that the        *)
(* script's patterns treat as a unit ("version", "0.0.9", "### Latest:").  *)
(* The regular expressions are evaluated over these sequences with the     *)
(* semantics of Python's re module (\s matches a line break, [^"] matches  *)
(* a line break, ^ and $ under re.M match at line boundaries).             *)
(*                                                                         *)
(* Line 137 of the source reads r"(grep\s+-q\s+["\'])..." which does not   *)
(* tokenize; the model reads the character classes as [\"\'] (a quote      *)
(* character), the only reading under which the file is a program.         *)
(***************************************************************************)
EXTENDS Integers, Sequences, FiniteSets, TLC

VARIABLES
    args,           \* argparse.Namespace of the current invocation
    disk,           \* file id -> [exists, text]
    git,            \* repository: untracked, wt, staged, tags, commits, pushed
    pc,             \* position of main()
    notes,          \* result of parse_notes
    changed_files,  \* main's changed_files list
    written,        \* history: files written by this run, in order
    trace,          \* history: steps of this run, [step, ok]
    status,         \* exit status: "running", "ok" (0), "fail" (non-zero)
    deadAt,         \* history: the step at which the run aborted, "" if none
    reason,         \* history: the message of the abort, "" if none
    runNo,          \* history: 1 for the first invocation, 2 for a re-run
    startDisk,      \* history: disk at the start of this invocation
    startGit,       \* history: git at the start of this invocation
    prevWrote,      \* history: files written by the previous invocation
    prevDeadAt      \* history: the step at which the previous invocation aborted

vars == <<args, disk, git, pc, notes, changed_files, written, trace,
          status, deadAt, reason, runNo, startDisk, startGit, prevWrote, prevDeadAt>>

-----------------------------------------------------------------------------
(* Bounds of the model *)

MaxNotes == 2
MaxLines == 2
MaxSegs == 3
MaxRuns == 2

-----------------------------------------------------------------------------
(* Lexemes and string helpers *)

NL == "\n"
SP == " "
QUOTE == "\""

IsSpace(c) == c \in {" ", "\n", "\t"}

\* Characters of the regex class \w: everything of the model's alphabet that
\* is not whitespace or punctuation (a word lexeme starts and ends with \w).
IsWord(c) == ~IsSpace(c) /\ c \notin {"#", "-", "=", "\"", "'", ".", ":", "[", "]"}

RECURSIVE Concat(_)
Concat(ss) == IF ss = <<>> THEN <<>> ELSE Head(ss) \o Concat(Tail(ss))

RECURSIVE Join(_, _)
Join(sep, ss) ==
    IF ss = <<>> THEN <<>>
    ELSE IF Len(ss) = 1 THEN ss[1]
    ELSE ss[1] \o sep \o Join(sep, Tail(ss))

Drop(t, n) == SubSeq(t, n + 1, Len(t))
Take(t, n) == SubSeq(t, 1, n)

RECURSIVE LStrip(_)
LStrip(t) == IF t # <<>> /\ IsSpace(t[1]) THEN LStrip(Tail(t)) ELSE t

RECURSIVE RStrip(_)
RStrip(t) == IF t # <<>> /\ IsSpace(t[Len(t)]) THEN RStrip(Take(t, Len(t) - 1)) ELSE t

\* str.strip()
Strip(t) == LStrip(RStrip(t))

\* str.splitlines(): lines without their terminators, no empty last line
RECURSIVE SplitLinesFrom(_, _)
SplitLinesFrom(t, cur) ==
    IF t = <<>> THEN (IF cur = <<>> THEN <<>> ELSE <<cur>>)
    ELSE IF t[1] = NL THEN <<cur>> \o SplitLinesFrom(Tail(t), <<>>)
    ELSE SplitLinesFrom(Tail(t), Append(cur, t[1]))

SplitLines(t) == SplitLinesFrom(t, <<>>)

StartsWith(t, p) == Len(t) >= Len(p) /\ Take(t, Len(p)) = p

\* t has p at position i (1-based)
HasAt(t, i, p) == i >= 1 /\ i + Len(p) - 1 <= Len(t) /\ SubSeq(t, i, i + Len(p) - 1) = p

\* ^ under re.M
AtLineStart(t, i) == i = 1 \/ (i >= 2 /\ i <= Len(t) + 1 /\ t[i - 1] = NL)

\* $ under re.M
AtLineEnd(t, i) == i = Len(t) + 1 \/ (i >= 1 /\ i <= Len(t) /\ t[i] = NL)

\* first position >= i that holds no whitespace (Len(t) + 1 if none): \s*
RECURSIVE SkipSpace(_, _)
SkipSpace(t, i) == IF i <= Len(t) /\ IsSpace(t[i]) THEN SkipSpace(t, i + 1) ELSE i

\* first position >= i holding lexeme c, 0 if none
RECURSIVE FindFrom(_, _, _)
FindFrom(t, i, c) ==
    IF i > Len(t) THEN 0 ELSE IF t[i] = c THEN i ELSE FindFrom(t, i + 1, c)

Min(S) == CHOOSE x \in S : \A y \in S : x <= y
Max(S) == CHOOSE x \in S : \A y \in S : x >= y

SeqToSet(s) == {s[i] : i \in 1..Len(s)}

-----------------------------------------------------------------------------
(* Notes collector: parse_notes *)

\* The placeholder note "TODO: add release notes"
Placeholder == <<"TODO:", " ", "add", " ", "release", " ", "notes">>

\* lines 44-47: the notes-file lines kept, stripped
RECURSIVE FileNotes(_)
FileNotes(lines) ==
    IF lines = <<>> THEN <<>>
    ELSE LET stripped == Strip(lines[1])
         IN (IF stripped # <<>> /\ stripped[1] # "#" THEN <<stripped>> ELSE <<>>)
            \o FileNotes(Tail(lines))

\* line 49: cleaned = [note.strip() for note in notes if note.strip()]
RECURSIVE Cleaned(_)
Cleaned(ns) ==
    IF ns = <<>> THEN <<>>
    ELSE (IF Strip(ns[1]) # <<>> THEN <<Strip(ns[1])>> ELSE <<>>) \o Cleaned(Tail(ns))

\* A collector that reads the notes file before the --note values
parse_notes_file_first(a) ==
    LET fromArgs == IF a.note # <<>> THEN a.note ELSE <<>>
        nf == a.notes_file
    IN  IF nf.given /\ ~nf.exists
        THEN [fatal |-> "notes file not found", notes |-> <<>>]
        ELSE LET all == (IF nf.given THEN FileNotes(SplitLines(nf.text)) ELSE <<>>) \o fromArgs
                 cleaned == Cleaned(all)
             IN  IF cleaned = <<>> /\ ~a.allow_empty_notes
                 THEN [fatal |-> "provide --note/--notes-file or pass --allow-empty-notes",
                       notes |-> <<>>]
                 ELSE IF cleaned = <<>> /\ a.allow_empty_notes
                 THEN [fatal |-> "", notes |-> <<Placeholder>>]
                 ELSE [fatal |-> "", notes |-> cleaned]

\* parse_notes(args): [fatal |-> message or "", notes |-> the list returned]
parse_notes(a) ==
    LET fromArgs == IF a.note # <<>> THEN a.note ELSE <<>>
        nf == a.notes_file
    IN  IF nf.given /\ ~nf.exists
        THEN [fatal |-> "notes file not found", notes |-> <<>>]
        ELSE LET all == fromArgs \o (IF nf.given THEN FileNotes(SplitLines(nf.text)) ELSE <<>>)
                 cleaned == Cleaned(all)
             IN  IF cleaned = <<>> /\ ~a.allow_empty_notes
                 THEN [fatal |-> "provide --note/--notes-file or pass --allow-empty-notes",
                       notes |-> <<>>]
                 ELSE IF cleaned = <<>> /\ a.allow_empty_notes
                 THEN [fatal |-> "", notes |-> <<Placeholder>>]
                 ELSE [fatal |-> "", notes |-> cleaned]

-----------------------------------------------------------------------------
(* Manifest version updater: update_extension_toml *)

\* The match of  ^version\s*=\s*"([^"]+)"  that starts at i:
\* [s |-> i, q |-> opening quote, e |-> closing quote], e = 0 if none.
TomlMatchAt(t, i) ==
    IF ~(i <= Len(t) /\ t[i] = "version" /\ AtLineStart(t, i))
    THEN [s |-> i, q |-> 0, e |-> 0]
    ELSE LET j == SkipSpace(t, i + 1)
         IN  IF ~(j <= Len(t) /\ t[j] = "=")
             THEN [s |-> i, q |-> 0, e |-> 0]
             ELSE LET k == SkipSpace(t, j + 1)
                  IN  IF ~(k <= Len(t) /\ t[k] = QUOTE)
                      THEN [s |-> i, q |-> 0, e |-> 0]
                      ELSE LET m == FindFrom(t, k + 1, QUOTE)
                           IN  IF m > k + 1
                               THEN [s |-> i, q |-> k, e |-> m]
                               ELSE [s |-> i, q |-> 0, e |-> 0]

\* re.search: the leftmost match, e = 0 if the pattern matches nowhere
TomlSearch(t) ==
    LET hits == {i \in 1..Len(t) : TomlMatchAt(t, i).e # 0}
    IN  IF hits = {} THEN [s |-> 0, q |-> 0, e |-> 0] ELSE TomlMatchAt(t, Min(hits))

\* f'version = "{version}"'
TomlLine(version) == <<"version", " ", "=", " ", QUOTE, version, QUOTE>>

\* An updater that substitutes the last match instead of the first
update_extension_toml_last(text, version) ==
    LET match == TomlSearch(text)
        hits == {i \in 1..Len(text) : TomlMatchAt(text, i).e # 0}
    IN  IF match.e = 0
        THEN [fatal |-> "extension.toml missing version field", before |-> text, after |-> text]
        ELSE LET current == SubSeq(text, match.q + 1, match.e - 1)
                 last == TomlMatchAt(text, Max(hits))
             IN  IF current = <<version>>
                 THEN [fatal |-> "extension.toml already at version",
                       before |-> text, after |-> text]
                 ELSE [fatal |-> "", before |-> text,
                       after |-> Take(text, last.s - 1) \o TomlLine(version)
                                 \o Drop(text, last.e)]

\* An updater without the guard on the current version
update_extension_toml_unguarded(text, version) ==
    LET match == TomlSearch(text)
    IN  IF match.e = 0
        THEN [fatal |-> "extension.toml missing version field", before |-> text, after |-> text]
        ELSE [fatal |-> "", before |-> text,
              after |-> Take(text, match.s - 1) \o TomlLine(version) \o Drop(text, match.e)]

\* update_extension_toml(path, version) on the text of the file
update_extension_toml(text, version) ==
    LET match == TomlSearch(text)
    IN  IF match.e = 0
        THEN [fatal |-> "extension.toml missing version field", before |-> text, after |-> text]
        ELSE LET current == SubSeq(text, match.q + 1, match.e - 1)
             IN  IF current = <<version>>
                 THEN [fatal |-> "extension.toml already at version",
                       before |-> text, after |-> text]
                 ELSE [fatal |-> "", before |-> text,
                       after |-> Take(text, match.s - 1) \o TomlLine(version)
                                 \o Drop(text, match.e)]

-----------------------------------------------------------------------------
(* Changelog inserter: insert_changelog *)

\* re.search(rf"^##\s+{re.escape(version)}\b", text, flags=re.M)
HeadingAt(t, i, version) ==
    /\ AtLineStart(t, i)
    /\ HasAt(t, i, <<"#", "#">>)
    /\ i + 2 <= Len(t) /\ IsSpace(t[i + 2])
    /\ LET j == SkipSpace(t, i + 2)
       IN  /\ j <= Len(t) /\ t[j] = version
           /\ (j = Len(t) \/ ~IsWord(t[j + 1]))

HasVersionHeading(t, version) == \E i \in 1..Len(t) : HeadingAt(t, i, version)

\* re.search(r"\n##\s", text): start of the leftmost match, 0 if none
FirstHeadingBreak(t) ==
    LET hits == {i \in 1..Len(t) :
                    /\ HasAt(t, i, <<NL, "#", "#">>)
                    /\ i + 3 <= Len(t) /\ IsSpace(t[i + 3])}
    IN  IF hits = {} THEN 0 ELSE Min(hits)

RECURSIVE BulletLines(_)
BulletLines(ns) ==
    IF ns = <<>> THEN <<>> ELSE <<<<"-", " ">> \o ns[1]>> \o BulletLines(Tail(ns))

\* section = f"\n## {version}\n\n{bullets}\n"
Section(version, ns) ==
    <<NL, "#", "#", " ", version, NL, NL>> \o Join(<<NL>>, BulletLines(ns)) \o <<NL>>

\* insert_changelog(path, version, notes) on the text of the file
insert_changelog(text, version, ns) ==
    IF HasVersionHeading(text, version)
    THEN [fatal |-> "CHANGELOG already contains version", before |-> text, after |-> text]
    ELSE LET m == FirstHeadingBreak(text)
         IN  [fatal |-> "", before |-> text,
              after |-> IF m # 0
                        THEN Take(text, m - 1) \o Section(version, ns) \o Drop(text, m - 1)
                        ELSE RStrip(text) \o Section(version, ns) \o <<NL>>]

-----------------------------------------------------------------------------
(* Version lexemes *)

\* The version strings of the model; each matches \d+\.\d+\.\d+
VersionLexemes == {"0.0.8", "0.0.9", "10.0.0"}

\* The characters a version lexeme stands for
VersionChars(v) ==
    CASE v = "0.0.8" -> <<"0", ".", "0", ".", "8">>
      [] v = "0.0.9" -> <<"0", ".", "0", ".", "9">>
      [] v = "10.0.0" -> <<"1", "0", ".", "0", ".", "0">>

DIGITS == {"0", "1", "2", "3", "4", "5", "6", "7", "8", "9"}
OCTDIGITS == {"0", "1", "2", "3", "4", "5", "6", "7"}

\* end of  \s*$  (re.M) started at p: the last position of the whitespace run
\* from p that is a line end, 0 if there is none
TrailEnd(t, p) ==
    LET r == SkipSpace(t, p)
        ends == {j \in p..r : AtLineEnd(t, j)}
    IN  IF ends = {} THEN 0 ELSE Max(ends)

\* end (exclusive) of the match of  ^<head><gap>v\d+\.\d+\.\d+\s*$  at i, where
\* <gap> is \s* (flexible) or one space; 0 if there is no match at i
VLineMatchAt(t, i, head, flexible) ==
    IF ~(AtLineStart(t, i) /\ HasAt(t, i, head)) THEN 0
    ELSE LET p == i + Len(head)
             g == IF flexible THEN SkipSpace(t, p)
                  ELSE IF p <= Len(t) /\ t[p] = SP THEN p + 1 ELSE 0
         IN  IF g = 0 \/ ~(g + 1 <= Len(t) /\ t[g] = "v" /\ t[g + 1] \in VersionLexemes)
             THEN 0
             ELSE TrailEnd(t, g + 2)

\* re.subn(pattern, repl, text, count=1) for such a pattern
VLineSub(t, head, flexible, repl) ==
    LET hits == {i \in 1..Len(t) : VLineMatchAt(t, i, head, flexible) # 0}
    IN  IF hits = {} THEN [text |-> t, count |-> 0]
        ELSE LET i == Min(hits)
                 e == VLineMatchAt(t, i, head, flexible)
             IN  [text |-> Take(t, i - 1) \o repl \o Drop(t, e - 1), count |-> 1]

-----------------------------------------------------------------------------
(* Readme updater: replace_latest_readme *)

LatestHead == <<"### Latest:">>

replace_latest_readme(text, version) ==
    LET r == VLineSub(text, LatestHead, TRUE, LatestHead \o <<SP, "v", version>>)
    IN  [before |-> text, after |-> r.text, updated |-> r.count > 0]

-----------------------------------------------------------------------------
(* Publishing checklist updater: update_publishing *)

\* "- [x] (backquote)extension.toml(backquote) version:"
EchoHead == <<"- [x] extension.toml version:">>
ChecklistHead == <<"## Release Checklist for">>
CreateTagHead == <<"- [ ] Create git tag">>

\* re.subn(r"(?m)^- \[x\] ... version: .*?$", ..., count=1)
EchoSub(t, version) ==
    LET hits == {i \in 1..Len(t) :
                    /\ AtLineStart(t, i)
                    /\ HasAt(t, i, EchoHead \o <<SP>>)}
    IN  IF hits = {} THEN [text |-> t, count |-> 0]
        ELSE LET i == Min(hits)
                 p == i + Len(EchoHead) + 1
                 nl == FindFrom(t, p, NL)
                 e == IF nl = 0 THEN Len(t) + 1 ELSE nl
             IN  [text |-> Take(t, i - 1) \o EchoHead \o <<SP, version>> \o Drop(t, e - 1),
                  count |-> 1]

update_publishing(text, version) ==
    LET r1 == EchoSub(text, version)
        r2 == VLineSub(r1.text, ChecklistHead, FALSE, ChecklistHead \o <<SP, "v", version>>)
        r3 == VLineSub(r2.text, CreateTagHead, FALSE, CreateTagHead \o <<SP, "v", version>>)
    IN  [before |-> text, after |-> r3.text,
         warnings |-> (IF r1.count = 0 THEN <<"extension.toml version line not found">> ELSE <<>>)
                   \o (IF r2.count = 0 THEN <<"release checklist header not found">> ELSE <<>>)
                   \o (IF r3.count = 0 THEN <<"create git tag line not found">> ELSE <<>>)]

-----------------------------------------------------------------------------
(* Test-script version-check updater: update_test_version_checks *)

QuoteChars == {QUOTE, "'"}

\* end (exclusive) of the match of
\*   (grep\s+-q\s+["'])(\d+\.\d+\.\d+)(["']\s+extension\.toml)
\* at i, with the position of the version lexeme; e = 0 if no match at i
GrepMatchAt(t, i) ==
    LET no == [v |-> 0, e |-> 0]
    IN  IF ~(i + 1 <= Len(t) /\ t[i] = "grep" /\ IsSpace(t[i + 1])) THEN no
        ELSE LET a == SkipSpace(t, i + 1)
             IN  IF ~(a + 1 <= Len(t) /\ t[a] = "-q" /\ IsSpace(t[a + 1])) THEN no
                 ELSE LET b == SkipSpace(t, a + 1)
                      IN  IF ~(b + 3 <= Len(t) /\ t[b] \in QuoteChars
                               /\ t[b + 1] \in VersionLexemes /\ t[b + 2] \in QuoteChars
                               /\ IsSpace(t[b + 3]))
                          THEN no
                          ELSE LET c == SkipSpace(t, b + 3)
                               IN  IF c <= Len(t) /\ t[c] = "extension.toml"
                                   THEN [v |-> b + 1, e |-> c + 1]
                                   ELSE no

\* The replacement template rf"\1{version}\3" as re parses it: the digits of
\* the version follow the backslash-1.  "\1d" with a second digit is group 1d,
\* or with two more octal digits the character with that octal code; a
\* pattern of three groups has no group 1d.
\*   [error |-> TRUE]                      invalid group reference
\*   [error |-> FALSE, group1, lit]        the literal text between the groups
TemplateParse(version) ==
    LET d == VersionChars(version)
    IN  IF d[1] \notin DIGITS
        THEN [error |-> FALSE, group1 |-> TRUE, lit |-> <<version>>]
        ELSE IF Len(d) >= 2 /\ d[1] \in OCTDIGITS /\ d[2] \in OCTDIGITS
        THEN [error |-> FALSE, group1 |-> FALSE, lit |-> <<"chr(0o1dd)">> \o Drop(d, 2)]
        ELSE [error |-> TRUE, group1 |-> FALSE, lit |-> <<>>]

\* all non-overlapping matches replaced, left to right, from position i
RECURSIVE GrepSubFrom(_, _, _)
GrepSubFrom(t, i, tpl) ==
    IF i > Len(t) THEN [text |-> <<>>, count |-> 0]
    ELSE LET m == GrepMatchAt(t, i)
         IN  IF m.e = 0
             THEN LET rest == GrepSubFrom(t, i + 1, tpl)
                  IN  [text |-> <<t[i]>> \o rest.text, count |-> rest.count]
             ELSE LET rest == GrepSubFrom(t, m.e, tpl)
                  IN  [text |-> (IF tpl.group1 THEN SubSeq(t, i, m.v - 1) ELSE <<>>)
                                \o tpl.lit \o SubSeq(t, m.v + 1, m.e - 1) \o rest.text,
                       count |-> rest.count + 1]

\* update_test_version_checks(path, version) on the text of the file;
\* raises: re.error from the template, raised before any match is looked for
update_test_version_checks(text, version) ==
    LET tpl == TemplateParse(version)
    IN  IF tpl.error
        THEN [raises |-> TRUE, before |-> text, after |-> text, updated |-> FALSE]
        ELSE LET r == GrepSubFrom(text, 1, tpl)
             IN  [raises |-> FALSE, before |-> text, after |-> r.text, updated |-> r.count > 0]

-----------------------------------------------------------------------------
(* Files and paths *)

F_toml == "extension.toml"
F_changelog == "CHANGELOG.md"
F_readme == "README.md"
F_publishing == "PUBLISHING.md"
F_test_sh == "test_extension.sh"
F_test_yml == ".github/workflows/test.yml"
F_wasm == "extension.wasm"
F_built == "target/wasm32-wasip1/release/zed_css_variables.wasm"
\* a file of the working tree that the script never touches
F_other == "notes.txt"

Files == {F_toml, F_changelog, F_readme, F_publishing, F_test_sh, F_test_yml,
          F_wasm, F_built, F_other}

\* the order in which git status lists paths
FileOrder == <<F_test_yml, F_changelog, F_publishing, F_readme, F_toml, F_wasm,
               F_other, F_test_sh>>

\* test_paths of main, lines 266-269
test_paths == <<F_test_sh, F_test_yml>>

\* The characters of a path relative to the repository root, as the first
\* character and the rest
PathChars(f) ==
    CASE f = F_toml -> <<"e", "xtension.toml">>
      [] f = F_changelog -> <<"C", "HANGELOG.md">>
      [] f = F_readme -> <<"R", "EADME.md">>
      [] f = F_publishing -> <<"P", "UBLISHING.md">>
      [] f = F_test_sh -> <<"t", "est_extension.sh">>
      [] f = F_test_yml -> <<".", "github/workflows/test.yml">>
      [] f = F_wasm -> <<"e", "xtension.wasm">>
      [] f = F_built -> <<"t", "arget/wasm32-wasip1/release/zed_css_variables.wasm">>
      [] f = F_other -> <<"n", "otes.txt">>

\* ROOT = pathlib.Path.cwd(): an absolute path
ROOT == <<"/", "home/dev/repo">>

\* str(ROOT / name)
AbsPath(f) == ROOT \o <<"/">> \o PathChars(f)

NoFile == [exists |-> FALSE, text |-> <<>>]
FileOf(text) == [exists |-> TRUE, text |-> text]

-----------------------------------------------------------------------------
(* The version-control client *)

\* f"v{args.version}"
TagName(version) == <<"v", version>>

\* f"Release v{args.version}"
ReleaseMessage(version) == <<"Release v", version>>

\* the working tree after the script wrote file f
GitTouch(g, f) ==
    IF f \in g.tracked THEN [g EXCEPT !.wt = @ \cup {f}]
    ELSE IF f \in g.ignored THEN g
    ELSE [g EXCEPT !.untracked = @ \cup {f}]

\* one line of git status --porcelain: XY, a space, the path
StatusLine(g, f) ==
    IF f \in g.untracked THEN <<"?", "?", SP>> \o PathChars(f)
    ELSE <<(IF f \in g.staged THEN "M" ELSE SP), (IF f \in g.wt THEN "M" ELSE SP), SP>>
         \o PathChars(f)

Listed(g, f) == f \in g.untracked \cup g.staged \cup g.wt

RECURSIVE StatusFrom(_, _)
StatusFrom(g, fs) ==
    IF fs = <<>> THEN <<>>
    ELSE (IF Listed(g, fs[1]) THEN StatusLine(g, fs[1]) \o <<NL>> ELSE <<>>)
         \o StatusFrom(g, Tail(fs))

\* stdout of git status --porcelain
GitStatusOutput(g) == StatusFrom(g, FileOrder)

\* lines 177-178 of git_status_files
RECURSIVE StatusPaths(_)
StatusPaths(lines) ==
    IF lines = <<>> THEN <<>>
    ELSE LET line == Strip(lines[1])
         IN (IF line # <<>> /\ Len(line) > 3 THEN <<Drop(line, 3)>> ELSE <<>>)
            \o StatusPaths(Tail(lines))

git_status_files(g) == StatusPaths(SplitLines(GitStatusOutput(g)))

\* git add -- path
GitAddOne(g, f) ==
    [g EXCEPT !.staged = @ \cup {f}, !.wt = @ \ {f}, !.untracked = @ \ {f},
              !.tracked = @ \cup {f}]

\* git_add: the repository after the first k paths were added
RECURSIVE GitAddUpTo(_, _, _)
GitAddUpTo(g, paths, k) ==
    IF k = 0 THEN g ELSE GitAddOne(GitAddUpTo(g, paths, k - 1), paths[k])

\* git commit -m message: the index becomes a commit
GitCommitIndex(g, message) ==
    [g EXCEPT !.commits = Append(@, [message |-> message, files |-> g.staged]),
              !.staged = {}]

-----------------------------------------------------------------------------
(* main: the steps of one invocation *)

Log(step, ok) == trace' = Append(trace, [step |-> step, ok |-> ok])

\* die(message), or an exception that nothing catches: exit status non-zero
Die(step, message) ==
    /\ pc' = "dead"
    /\ status' = "fail"
    /\ deadAt' = step
    /\ reason' = message
    /\ Log(step, FALSE)

Goto(step, next) ==
    /\ pc' = next
    /\ Log(step, TRUE)
    /\ UNCHANGED <<status, deadAt, reason>>

\* a step that its flag switches off
Skip(next) ==
    /\ pc' = next
    /\ UNCHANGED <<trace, status, deadAt, reason>>

\* write_text(path, after); changed_files.append(path)
WriteChanged(f, text) ==
    /\ disk' = [disk EXCEPT ![f] = FileOf(text)]
    /\ git' = GitTouch(git, f)
    /\ changed_files' = Append(changed_files, f)
    /\ written' = Append(written, f)

NoWrite == UNCHANGED <<disk, git, changed_files, written>>

Fixed == UNCHANGED <<args, runNo, startDisk, startGit, prevWrote, prevDeadAt>>

\* ensure_repo_files(), line 233
EnsureRepoFiles ==
    /\ pc = "ensure"
    /\ IF disk[F_toml].exists /\ disk[F_changelog].exists
       THEN Goto("args", "notes")
       ELSE Die("args", "run from repo root")
    /\ NoWrite
    /\ UNCHANGED notes
    /\ Fixed

\* notes = parse_notes(args), line 234
ParseNotes ==
    /\ pc = "notes"
    /\ LET r == parse_notes(args)
       IN  IF r.fatal # ""
           THEN Die("args", r.fatal) /\ UNCHANGED notes
           ELSE Goto("args", "toml") /\ notes' = r.notes
    /\ NoWrite
    /\ Fixed

\* lines 238-242
UpdateManifest ==
    /\ pc = "toml"
    /\ LET r == update_extension_toml(disk[F_toml].text, args.version)
       IN  IF r.fatal # ""
           THEN Die("edit", r.fatal) /\ NoWrite
           ELSE /\ Goto("edit", "changelog")
                /\ IF r.before # r.after THEN WriteChanged(F_toml, r.after) ELSE NoWrite
    /\ UNCHANGED notes
    /\ Fixed

\* lines 244-248
InsertChangelog ==
    /\ pc = "changelog"
    /\ LET r == insert_changelog(disk[F_changelog].text, args.version, notes)
       IN  IF r.fatal # ""
           THEN Die("edit", r.fatal) /\ NoWrite
           ELSE /\ Goto("edit", "readme")
                /\ IF r.before # r.after THEN WriteChanged(F_changelog, r.after) ELSE NoWrite
    /\ UNCHANGED notes
    /\ Fixed

\* lines 250-255
UpdateReadme ==
    /\ pc = "readme"
    /\ Goto("edit", "publishing")
    /\ IF disk[F_readme].exists
       THEN LET r == replace_latest_readme(disk[F_readme].text, args.version)
            IN  IF r.updated /\ r.before # r.after
                THEN WriteChanged(F_readme, r.after)
                ELSE NoWrite
       ELSE NoWrite
    /\ UNCHANGED notes
    /\ Fixed

\* lines 257-264
UpdatePublishing ==
    /\ pc = "publishing"
    /\ Goto("edit", "test_checks")
    /\ IF disk[F_publishing].exists
       THEN LET r == update_publishing(disk[F_publishing].text, args.version)
            IN  IF r.before # r.after
                THEN WriteChanged(F_publishing, r.after)
                ELSE NoWrite
       ELSE NoWrite
    /\ UNCHANGED notes
    /\ Fixed

\* one round of the loop of lines 270-275; st = [raised, disk, git, changed, written]
TestCheckStep(st, path, version) ==
    IF st.raised \/ ~st.disk[path].exists THEN st
    ELSE LET r == update_test_version_checks(st.disk[path].text, version)
         IN  IF r.raises THEN [st EXCEPT !.raised = TRUE]
             ELSE IF r.updated /\ r.before # r.after
             THEN [raised |-> FALSE,
                   disk |-> [st.disk EXCEPT ![path] = FileOf(r.after)],
                   git |-> GitTouch(st.git, path),
                   changed |-> Append(st.changed, path),
                   written |-> Append(st.written, path)]
             ELSE st

\* lines 266-275
UpdateTestChecks ==
    /\ pc = "test_checks"
    /\ LET st0 == [raised |-> FALSE, disk |-> disk, git |-> git,
                   changed |-> changed_files, written |-> written]
           st1 == TestCheckStep(st0, test_paths[1], args.version)
           st2 == TestCheckStep(st1, test_paths[2], args.version)
       IN  /\ disk' = st2.disk
           /\ git' = st2.git
           /\ changed_files' = st2.changed
           /\ written' = st2.written
           /\ IF st2.raised
              THEN Die("edit", "re.error: invalid group reference")
              ELSE Goto("edit", "build")
    /\ UNCHANGED notes
    /\ Fixed

\* lines 277-281 and build_wasm; ok: exit status of cargo build is zero,
\* produced: the build leaves the artifact in target/
Build ==
    /\ pc = "build"
    /\ IF ~args.build
       THEN Skip("test") /\ NoWrite
       ELSE \E ok \in BOOLEAN, produced \in BOOLEAN :
              LET built == disk[F_built].exists \/ (ok /\ produced)
              IN  IF ~ok
                  THEN Die("build", "CalledProcessError") /\ NoWrite
                  ELSE IF ~built
                  THEN Die("build", "build succeeded but wasm file not found") /\ NoWrite
                  ELSE /\ Goto("build", "test")
                       /\ disk' = [disk EXCEPT ![F_built] = FileOf(<<"wasm">>),
                                               ![F_wasm] = FileOf(<<"wasm">>)]
                       /\ git' = GitTouch(git, F_wasm)
                       /\ changed_files' = Append(changed_files, F_wasm)
                       /\ written' = Append(written, F_wasm)
    /\ UNCHANGED notes
    /\ Fixed

\* A test step that goes on to the commit after a failing command
RunTests_Continue ==
    /\ pc = "test"
    /\ IF ~args.run_tests
       THEN Skip("commit")
       ELSE \E fail \in 0..3 :
              /\ (fail \in {0, 3} => disk[F_test_sh].exists)
              /\ pc' = "commit"
              /\ Log("test", fail = 0)
              /\ UNCHANGED <<status, deadAt, reason>>
    /\ NoWrite
    /\ UNCHANGED notes
    /\ Fixed

\* lines 283-284 and run_tests; fail: the first of the three commands that
\* exits non-zero, 0 if none does.  ./test_extension.sh runs only if it exists.
RunTests ==
    /\ pc = "test"
    /\ IF ~args.run_tests
       THEN Skip("commit")
       ELSE \E fail \in 0..3 :
              /\ (fail \in {0, 3} => disk[F_test_sh].exists)
              /\ IF fail = 0
                 THEN Goto("test", "commit")
                 ELSE Die("test", "CalledProcessError")
    /\ NoWrite
    /\ UNCHANGED notes
    /\ Fixed

\* lines 286-294; fail: the first version-control command that exits
\* non-zero (1: status, 1 + k: the k-th add, n + 2: commit), 0 if none does
Commit ==
    /\ pc = "commit"
    /\ IF ~args.commit
       THEN Skip("tag") /\ UNCHANGED git
       ELSE LET n == Len(changed_files)
                changed_set == {AbsPath(changed_files[i]) : i \in 1..n}
                status_files == git_status_files(git)
                extras == SelectSeq(status_files, LAMBDA path : path \notin changed_set)
                \* git add fails on an ignored path, git commit on an empty index
                addable(k) == \A i \in 1..k : changed_files[i] \notin git.ignored
            IN  \E fail \in 0..(n + 2) :
                  IF fail = 1
                  THEN Die("commit", "CalledProcessError") /\ UNCHANGED git
                  ELSE IF status_files # <<>> /\ ~args.allow_dirty /\ extras # <<>>
                  THEN /\ fail = 0
                       /\ Die("commit", "working tree has unrelated changes")
                       /\ UNCHANGED git
                  ELSE IF fail \in 2..(n + 1)
                  THEN /\ addable(fail - 2)
                       /\ Die("commit", "CalledProcessError")
                       /\ git' = GitAddUpTo(git, changed_files, fail - 2)
                  ELSE /\ addable(n)
                       /\ LET added == GitAddUpTo(git, changed_files, n)
                          IN  IF fail = n + 2
                              THEN /\ Die("commit", "CalledProcessError")
                                   /\ git' = added
                              ELSE /\ added.staged # {}
                                   /\ Goto("commit", "tag")
                                   /\ git' = GitCommitIndex(added, ReleaseMessage(args.version))
    /\ UNCHANGED <<disk, changed_files, written, notes>>
    /\ Fixed

\* A tag step that does not look for an existing tag
Tag_Unguarded ==
    /\ pc = "tag"
    /\ IF ~args.tag
       THEN Skip("push") /\ UNCHANGED git
       ELSE \E fail \in {0, 2} :
              IF fail = 2
              THEN Die("tag", "CalledProcessError") /\ UNCHANGED git
              ELSE /\ Goto("tag", "push")
                   /\ git' = [git EXCEPT !.tags = @ \cup {TagName(args.version)}]
    /\ UNCHANGED <<disk, changed_files, written, notes>>
    /\ Fixed

\* lines 296-298 and git_tag; fail: 1 if git tag --list exits non-zero,
\* 2 if git tag does, 0 if neither
Tag ==
    /\ pc = "tag"
    /\ IF ~args.tag
       THEN Skip("push") /\ UNCHANGED git
       ELSE \E fail \in 0..2 :
              LET tag_name == TagName(args.version)
                  existing == tag_name \in git.tags
              IN  IF fail = 1
                  THEN Die("tag", "CalledProcessError") /\ UNCHANGED git
                  ELSE IF existing
                  THEN /\ fail = 0
                       /\ Die("tag", "git tag already exists")
                       /\ UNCHANGED git
                  ELSE IF fail = 2
                  THEN Die("tag", "CalledProcessError") /\ UNCHANGED git
                  ELSE /\ Goto("tag", "push")
                       /\ git' = [git EXCEPT !.tags = @ \cup {tag_name}]
    /\ UNCHANGED <<disk, changed_files, written, notes>>
    /\ Fixed

\* A push step that does not look for the tag it pushes
Push_Unguarded ==
    /\ pc = "push"
    /\ IF ~args.push
       THEN Skip("finish") /\ UNCHANGED git
       ELSE \E fail \in {0, 2, 3} :
              LET head == [remote |-> args.remote, ref |-> <<"HEAD">>]
                  tag == [remote |-> args.remote, ref |-> TagName(args.version)]
              IN  IF fail = 2
                  THEN Die("push", "CalledProcessError") /\ UNCHANGED git
                  ELSE IF fail = 3
                  THEN /\ Die("push", "CalledProcessError")
                       /\ git' = [git EXCEPT !.pushed = Append(@, head)]
                  ELSE /\ Goto("push", "finish")
                       /\ git' = [git EXCEPT !.pushed = Append(Append(@, head), tag)]
    /\ UNCHANGED <<disk, changed_files, written, notes>>
    /\ Fixed

\* lines 300-310 and git_push; fail: 1 if git tag --list exits non-zero,
\* 2 if the push of HEAD does, 3 if the push of the tag does, 0 if none
Push ==
    /\ pc = "push"
    /\ IF ~args.push
       THEN Skip("finish") /\ UNCHANGED git
       ELSE \E fail \in 0..3 :
              LET tag_name == TagName(args.version)
                  existing == tag_name \in git.tags
                  head == [remote |-> args.remote, ref |-> <<"HEAD">>]
                  tag == [remote |-> args.remote, ref |-> tag_name]
              IN  IF ~args.tag /\ fail = 1
                  THEN Die("push", "CalledProcessError") /\ UNCHANGED git
                  ELSE IF ~args.tag /\ ~existing
                  THEN /\ fail = 0
                       /\ Die("push", "--push requires --tag or an existing tag")
                       /\ UNCHANGED git
                  ELSE IF fail = 2
                  THEN Die("push", "CalledProcessError") /\ UNCHANGED git
                  ELSE IF fail = 3
                  THEN /\ Die("push", "CalledProcessError")
                       /\ git' = [git EXCEPT !.pushed = Append(@, head)]
                  ELSE /\ fail = 0
                       /\ Goto("push", "finish")
                       /\ git' = [git EXCEPT !.pushed = Append(Append(@, head), tag)]
    /\ UNCHANGED <<disk, changed_files, written, notes>>
    /\ Fixed

\* print("done"), line 312: exit status zero
Finish ==
    /\ pc = "finish"
    /\ pc' = "done"
    /\ status' = "ok"
    /\ UNCHANGED <<trace, deadAt, reason>>
    /\ NoWrite
    /\ UNCHANGED notes
    /\ Fixed

\* The operator runs the script again with the same arguments, line 316;
\* repair: after a failure of a version-control step the operator first
\* removes its cause (the unrelated changes, the tag in the way).
Rerun ==
    /\ pc \in {"dead", "done"}
    /\ runNo < MaxRuns
    /\ \E repair \in BOOLEAN :
         /\ (repair => deadAt \in {"commit", "tag", "push"})
         /\ git' = IF repair
                   THEN [git EXCEPT !.untracked = @ \ {F_other}, !.wt = @ \ {F_other},
                                    !.staged = @ \ {F_other},
                                    !.tags = IF deadAt = "tag"
                                             THEN @ \ {TagName(args.version)} ELSE @]
                   ELSE git
         /\ startGit' = git'
    /\ pc' = "ensure"
    /\ status' = "running"
    /\ deadAt' = ""
    /\ reason' = ""
    /\ notes' = <<>>
    /\ changed_files' = <<>>
    /\ written' = <<>>
    /\ trace' = <<>>
    /\ runNo' = runNo + 1
    /\ startDisk' = disk
    /\ prevWrote' = written
    /\ prevDeadAt' = deadAt
    /\ UNCHANGED <<args, disk>>

Next ==
    \/ EnsureRepoFiles
    \/ ParseNotes
    \/ UpdateManifest
    \/ InsertChangelog
    \/ UpdateReadme
    \/ UpdatePublishing
    \/ UpdateTestChecks
    \/ Build
    \/ RunTests
    \/ Commit
    \/ Tag
    \/ Push
    \/ Finish
    \/ Rerun

-----------------------------------------------------------------------------
(* Initial states *)

\* parser.add_argument("--remote", default="origin"), line 225
Remote(opt) == IF opt.given THEN opt.value ELSE "origin"

NotGiven == [given |-> FALSE, exists |-> FALSE, text |-> <<>>]

\* the namespace of: <version> --note a
BaseArgs(version) ==
    [version |-> version, note |-> << <<"a">> >>, notes_file |-> NotGiven,
     allow_empty_notes |-> FALSE, build |-> FALSE, run_tests |-> FALSE,
     commit |-> FALSE, tag |-> FALSE, push |-> FALSE, allow_dirty |-> FALSE,
     remote_opt |-> [given |-> FALSE, value |-> ""], remote |-> "origin"]

TomlSample == <<"x", NL, "version", SP, "=", SP, QUOTE, "0.0.8", QUOTE, NL>>
ChangelogSample ==
    <<"#", SP, "x", NL, NL, "#", "#", SP, "0.0.8", NL, NL, "-", SP, "x", NL>>
ReadmeSample == <<"x", NL, "### Latest:", SP, "v", "0.0.8", NL>>
PublishingSample ==
    ChecklistHead \o <<SP, "v", "0.0.8", NL>> \o EchoHead \o <<SP, "0.0.8", NL>>
    \o CreateTagHead \o <<SP, "v", "0.0.8", NL>>
TestSample == <<"grep", SP, "-q", SP, QUOTE, "0.0.8", QUOTE, SP, "extension.toml", NL>>
PlainText == <<"x", NL>>

\* a checkout with the two required files and a readme
BaseDisk ==
    [f \in Files |->
        CASE f = F_toml -> FileOf(TomlSample)
          [] f = F_changelog -> FileOf(ChangelogSample)
          [] f = F_readme -> FileOf(ReadmeSample)
          [] f = F_wasm -> FileOf(<<"wasm">>)
          [] OTHER -> NoFile]

\* a clean repository
BaseGit ==
    [tracked |-> Files \ {F_built, F_other}, ignored |-> {F_built}, untracked |-> {},
     wt |-> {}, staged |-> {}, tags |-> {}, commits |-> <<>>, pushed |-> <<>>]

\* the repository with the unrelated file in state o
GitWith(o, tags) ==
    [BaseGit EXCEPT !.tracked = IF o = "untracked" THEN @ ELSE @ \cup {F_other},
                    !.untracked = IF o = "untracked" THEN {F_other} ELSE {},
                    !.wt = IF o = "modified" THEN {F_other} ELSE {},
                    !.staged = IF o = "staged" THEN {F_other} ELSE {},
                    !.tags = tags]

Begin(a, d, g) ==
    /\ args = a
    /\ disk = d
    /\ git = g
    /\ pc = "ensure"
    /\ notes = <<>>
    /\ changed_files = <<>>
    /\ written = <<>>
    /\ trace = <<>>
    /\ status = "running"
    /\ deadAt = ""
    /\ reason = ""
    /\ runNo = 1
    /\ startDisk = d
    /\ startGit = g
    /\ prevWrote = <<>>
    /\ prevDeadAt = ""

\* Invocations with every combination of the step flags, in repositories
\* with and without unrelated work, an earlier tag, a test script, a build
Init ==
    \E version \in VersionLexemes, build, run_tests, commit, tag, push, allow_dirty \in BOOLEAN,
       upstream \in BOOLEAN, o \in {"clean", "untracked", "modified", "staged"},
       tagged \in BOOLEAN, script \in BOOLEAN, built \in BOOLEAN :
        /\ (upstream => push)
        /\ (built => build)
        /\ LET opt == [given |-> upstream, value |-> IF upstream THEN "upstream" ELSE ""]
           IN Begin([BaseArgs(version) EXCEPT !.build = build, !.run_tests = run_tests,
                        !.commit = commit, !.tag = tag, !.push = push,
                        !.allow_dirty = allow_dirty, !.remote_opt = opt,
                        !.remote = Remote(opt)],
                    [BaseDisk EXCEPT ![F_test_sh] = IF script THEN FileOf(PlainText) ELSE NoFile,
                                     ![F_built] = IF built THEN FileOf(<<"wasm">>) ELSE NoFile,
                                     ![F_other] = IF o = "clean" THEN NoFile ELSE FileOf(PlainText)],
                    GitWith(o, IF tagged THEN {TagName(version)} ELSE {}))

Spec == Init /\ [][Next]_vars

-----------------------------------------------------------------------------
(* Vocabulary of the properties *)

StepRan(s) == \E i \in 1..Len(trace) : trace[i].step = s
StepOk(s) == \E i \in 1..Len(trace) : trace[i].step = s /\ trace[i].ok

OptionalSteps == {"build", "test", "commit", "tag", "push"}

Rank(s) ==
    CASE s = "args" -> 0 [] s = "edit" -> 1 [] s = "build" -> 2 [] s = "test" -> 3
      [] s = "commit" -> 4 [] s = "tag" -> 5 [] s = "push" -> 6

Flag(s) ==
    CASE s = "build" -> args.build [] s = "test" -> args.run_tests
      [] s = "commit" -> args.commit [] s = "tag" -> args.tag [] s = "push" -> args.push

NoDuplicates(q) == \A i, j \in 1..Len(q) : i # j => q[i] # q[j]

LastCommit == git.commits[Len(git.commits)]

\* files that git status lists and this run did not change
Unrelated == {f \in Files : Listed(startGit, f)} \ SeqToSet(changed_files)

-----------------------------------------------------------------------------
(* Properties of the release steps, checked under Spec *)

\* C1: with --commit and without --allow-dirty, the run dies at the commit
\* step (nothing staged, no commit created) if and only if git status lists
\* a file that is not in this run's changed-file set; when every listed file
\* is one this run changed, the changed files are staged and the commit
\* "Release v<version>" is created.  (Failures of the git commands themselves
\* are left out of the statement.)
C1_CommitGuardIff ==
    (args.commit /\ ~args.allow_dirty /\ StepRan("commit") /\ reason # "CalledProcessError")
    => IF Unrelated # {}
       THEN /\ pc = "dead" /\ deadAt = "commit"
            /\ git.staged = startGit.staged
            /\ git.commits = startGit.commits
       ELSE /\ StepOk("commit")
            /\ Len(git.commits) = Len(startGit.commits) + 1
            /\ LastCommit.message = ReleaseMessage(args.version)
            /\ SeqToSet(changed_files) \subseteq LastCommit.files

\* C2: with --commit and --allow-dirty, whatever the working tree and the
\* index held before, the commit the run creates contains exactly the files
\* this run changed.
C2_CommitOnlyChanged ==
    (args.commit /\ args.allow_dirty /\ StepOk("commit"))
    => LastCommit.files = SeqToSet(changed_files)

\* C3: with --tag, if the tag v<version> exists already the run dies at the
\* tag step, no tag is created or changed and no push is executed; otherwise
\* the tag step creates exactly the one tag v<version>, and with --commit
\* only after the release commit exists.
C3_TagGuard ==
    args.tag =>
      LET tag_name == TagName(args.version)
      IN  /\ tag_name \in startGit.tags =>
                /\ ~StepOk("tag") /\ ~StepRan("push")
                /\ git.tags = startGit.tags
                /\ git.pushed = startGit.pushed
                /\ (StepRan("tag") => pc = "dead" /\ status = "fail")
          /\ tag_name \notin startGit.tags =>
                git.tags = IF StepOk("tag") THEN startGit.tags \cup {tag_name}
                           ELSE startGit.tags
          /\ (StepOk("tag") /\ args.commit) =>
                /\ StepOk("commit")
                /\ Len(git.commits) = Len(startGit.commits) + 1
                /\ LastCommit.message = ReleaseMessage(args.version)

\* C3 witness: a run with --commit, --tag and --push that made its commit and
\* then died at the tag step because the tag existed
C3_Witness ==
    /\ args.tag /\ args.commit /\ args.push
    /\ StepOk("commit")
    /\ pc = "dead" /\ deadAt = "tag" /\ reason = "git tag already exists"

\* C4: with --push, the run dies without pushing anything when --tag was not
\* given and no tag v<version> exists; whenever something was pushed the tag
\* v<version> exists locally, and what was pushed is the branch head and then
\* the tag, both to the remote of --remote, which is "origin" by default.
C4_PushGuard ==
    args.push =>
      LET tag_name == TagName(args.version)
          remote == IF args.remote_opt.given THEN args.remote_opt.value ELSE "origin"
          new == SubSeq(git.pushed, Len(startGit.pushed) + 1, Len(git.pushed))
          both == <<[remote |-> remote, ref |-> <<"HEAD">>],
                    [remote |-> remote, ref |-> tag_name]>>
      IN  /\ Take(git.pushed, Len(startGit.pushed)) = startGit.pushed
          /\ (~args.tag /\ tag_name \notin startGit.tags) =>
                /\ new = <<>>
                /\ pc \notin {"finish", "done"}
                /\ (StepRan("push") => pc = "dead" /\ status = "fail")
          /\ new # <<>> =>
                /\ tag_name \in git.tags
                /\ new \in {Take(both, 1), both}
          /\ StepOk("push") => new = both

\* C4 witness: a run without --tag and without --remote that pushed the head
\* and the tag of an earlier run to origin
C4_Witness ==
    /\ args.push /\ ~args.tag /\ ~args.remote_opt.given
    /\ pc = "done"
    /\ Len(git.pushed) = Len(startGit.pushed) + 2
    /\ git.pushed[Len(git.pushed)].remote = "origin"

\* C8: the steps of a run execute in the order file edits, build, test,
\* commit, tag, push, an optional step only if its flag is set; a step that
\* fails is the last step of the run, which ends with a non-zero status and
\* without any effect of a later step (no commit, tag or push after a failing
\* test); "done" and status zero are reached only when every requested step
\* succeeded.
C8_OrderAndAbort ==
    /\ \A i, j \in 1..Len(trace) :
          i < j => /\ Rank(trace[i].step) <= Rank(trace[j].step)
                   /\ (trace[j].step \in OptionalSteps
                          => Rank(trace[i].step) < Rank(trace[j].step))
    /\ \A i \in 1..Len(trace) :
          /\ trace[i].step \in OptionalSteps => Flag(trace[i].step)
          /\ ~trace[i].ok => i = Len(trace) /\ pc = "dead" /\ status = "fail"
    /\ pc = "dead" =>
          /\ status = "fail"
          /\ trace # <<>> /\ ~trace[Len(trace)].ok /\ trace[Len(trace)].step = deadAt
          /\ Rank(deadAt) <= 3 => git.commits = startGit.commits
          /\ Rank(deadAt) <= 4 => git.tags = startGit.tags
          /\ Rank(deadAt) <= 5 => git.pushed = startGit.pushed
    /\ status = "ok" <=> pc = "done"
    /\ pc = "done" =>
          /\ \A i \in 1..Len(trace) : trace[i].ok
          /\ StepOk("edit")
          /\ \A s \in OptionalSteps : Flag(s) => StepOk(s)

\* C8 witness: a failing test in a run that was asked to commit, tag and push
C8_Witness ==
    /\ args.run_tests /\ args.commit /\ args.tag /\ args.push
    /\ pc = "dead" /\ deadAt = "test"

\* C9 as stated: after a run that wrote its files and then aborted at a later
\* step (build, test, commit, tag or push), a re-run with the same version is
\* not stopped by the guards of the file edits: it resumes with the remaining
\* steps.
C9_RerunResumes ==
    (runNo > 1 /\ prevDeadAt \in OptionalSteps /\ prevWrote # <<>>)
    => ~(pc = "dead" /\ deadAt = "edit")

\* C9 as amended: a run that aborts leaves the files it wrote as written (the
\* manifest at the new version, the changelog with the new heading), and a
\* re-run with the same version after such a run does not resume: it dies at
\* the manifest updater ("already at version") before it writes a file or
\* runs a later step, so no edit is applied twice.
C9_RerunStopsAtManifest ==
    /\ F_toml \in SeqToSet(written) =>
          LET m == TomlSearch(disk[F_toml].text)
          IN  m.e # 0 /\ SubSeq(disk[F_toml].text, m.q + 1, m.e - 1) = <<args.version>>
    /\ F_changelog \in SeqToSet(written) =>
          HasVersionHeading(disk[F_changelog].text, args.version)
    /\ (runNo > 1 /\ prevWrote # <<>>) =>
          /\ pc \in {"ensure", "notes", "toml", "dead"}
          /\ disk = startDisk /\ written = <<>> /\ changed_files = <<>>
          /\ git.commits = startGit.commits /\ git.tags = startGit.tags
          /\ git.pushed = startGit.pushed
          /\ pc = "dead" => deadAt = "edit" /\ reason = "extension.toml already at version"

\* C9 witness: the re-run after a run that died at its test step, itself dead
\* at the manifest updater
C9_Witness ==
    /\ runNo = 2 /\ prevDeadAt = "test" /\ prevWrote # <<>>
    /\ pc = "dead" /\ reason = "extension.toml already at version"

\* C10: the changed-file set holds exactly the files written during this
\* run, in the order written and without duplicates, and a transformation
\* that finds nothing to change raises no error: the only fatal file edits
\* are the guards of the manifest updater and the changelog inserter.
C10_ChangedFilesExact ==
    /\ changed_files = written
    /\ NoDuplicates(changed_files)
    /\ (pc = "dead" /\ deadAt = "edit") =>
          reason \in {"extension.toml missing version field",
                      "extension.toml already at version",
                      "CHANGELOG already contains version"}

\* the part of C10 that the code keeps: changed_files is the list of writes
ChangedIsWritten == changed_files = written /\ NoDuplicates(changed_files)

-----------------------------------------------------------------------------
(* Inputs of the text transformations, drawn from bounded sets *)

\* all sequences of at most n elements of S
RECURSIVE SeqsUpTo(_, _)
SeqsUpTo(S, n) ==
    IF n = 0 THEN {<<>>}
    ELSE LET shorter == SeqsUpTo(S, n - 1)
         IN  shorter \cup {Append(q, x) : q \in shorter, x \in S}

\* values of --note
NotePool == {<<SP>>, <<"a">>, <<SP, "#", "b", SP>>}

\* lines of a notes file
LinePool == {<<>>, <<SP, "c", SP>>, <<"d">>, <<SP, "#", "e">>}

RECURSIVE EndLines(_)
EndLines(lines) == IF lines = <<>> THEN <<>> ELSE lines[1] \o <<NL>> \o EndLines(Tail(lines))

\* pieces of a manifest
TomlPool ==
    {<<"version", SP, "=", SP, QUOTE, "0.0.8", QUOTE>>,
     <<"version", "=", QUOTE, "0.0.9", QUOTE>>,
     <<"version", SP, "=">>,
     <<QUOTE, "0.0.8", QUOTE>>,
     <<SP, QUOTE, "x">>,
     <<NL>>,
     <<SP, "#", SP, "x">>,
     <<"x", SP, "=", SP, QUOTE, "x", QUOTE, NL>>}

\* pieces of a changelog
ChangelogPool ==
    {<<"#", SP, "x", NL>>,
     <<"#", "#", SP, "0.0.8", NL>>,
     <<"#", "#", SP, "0.0.9", NL>>,
     <<"#", "#", SP, "0.0.9", "x", NL>>,
     <<"#", "#", SP, "x", NL>>,
     <<"#", "#", "#", SP, "x", NL>>,
     <<"-", SP, "x", NL>>,
     <<NL>>,
     <<"x">>}

TextArgs == BaseArgs("0.0.9")

\* parse_notes on every combination of --note values and notes file
InitNotes ==
    \E note \in SeqsUpTo(NotePool, MaxNotes),
       file \in {NotGiven, [given |-> TRUE, exists |-> FALSE, text |-> <<>>]}
                \cup {[given |-> TRUE, exists |-> TRUE, text |-> EndLines(ls)] :
                         ls \in SeqsUpTo(LinePool, MaxLines)},
       allow \in BOOLEAN :
        Begin([TextArgs EXCEPT !.note = note, !.notes_file = file,
                               !.allow_empty_notes = allow],
              BaseDisk, BaseGit)

\* update_extension_toml on every manifest of at most MaxSegs pieces
InitToml ==
    \E segs \in SeqsUpTo(TomlPool, MaxSegs) :
        Begin(TextArgs, [BaseDisk EXCEPT ![F_toml] = FileOf(Concat(segs))], BaseGit)

\* insert_changelog on every changelog of at most MaxSegs pieces, with two
\* notes
InitChangelog ==
    \E segs \in SeqsUpTo(ChangelogPool, MaxSegs) :
        Begin([TextArgs EXCEPT !.note = << <<"b">>, <<"a", SP, "c">> >>],
              [BaseDisk EXCEPT ![F_changelog] = FileOf(Concat(segs))], BaseGit)

\* the optional files: absent, without the patterns, with them
InitFiles ==
    \E version \in VersionLexemes, build \in BOOLEAN,
       readme \in {NoFile, FileOf(PlainText), FileOf(ReadmeSample),
                   FileOf(<<"### Latest:", SP, "v", "0.0.9">>)},
       publishing \in {NoFile, FileOf(PlainText), FileOf(PublishingSample),
                       FileOf(EchoHead \o <<SP, "0.0.9", NL>>)},
       script \in {NoFile, FileOf(PlainText), FileOf(TestSample)},
       workflow \in {NoFile, FileOf(TestSample \o TestSample)} :
        Begin([BaseArgs(version) EXCEPT !.build = build],
              [BaseDisk EXCEPT ![F_readme] = readme, ![F_publishing] = publishing,
                               ![F_test_sh] = script, ![F_test_yml] = workflow],
              BaseGit)

InitText == InitNotes \/ InitToml \/ InitChangelog \/ InitFiles

SpecText == InitText /\ [][Next]_vars

-----------------------------------------------------------------------------
(* Properties of the text transformations, stated on lines *)

\* positions of the line breaks of t
Breaks(t) == {i \in 1..Len(t) : t[i] = NL}

\* the lines of t: the pieces between its line breaks, in order
LinesOf(t) ==
    LET cut(k) == IF k = 0 THEN 0
                  ELSE IF k > Cardinality(Breaks(t)) THEN Len(t) + 1
                  ELSE CHOOSE i \in Breaks(t) :
                          Cardinality({j \in Breaks(t) : j <= i}) = k
    IN  [k \in 1..(Cardinality(Breaks(t)) + 1) |-> SubSeq(t, cut(k - 1) + 1, cut(k) - 1)]

Trimmed(ns) == [i \in 1..Len(ns) |-> Strip(ns[i])]

\* the list the notes collector is to return before the placeholder rule
ExpectedNotes(a) ==
    LET explicit == SelectSeq(Trimmed(a.note), LAMBDA n : n # <<>>)
        fromFile == IF a.notes_file.given
                    THEN SelectSeq(Trimmed(LinesOf(a.notes_file.text)),
                                   LAMBDA n : n # <<>> /\ n[1] # "#")
                    ELSE <<>>
    IN  explicit \o fromFile

IsBullet(l) == Len(l) >= 2 /\ l[1] = "-" /\ l[2] = SP

Bullets(t) == SelectSeq(LinesOf(t), IsBullet)

PastNotes == pc \notin {"ensure", "notes"} /\ ~(pc = "dead" /\ deadAt = "args")

\* C5: with the notes file present or not asked for, let E be the --note
\* values, trimmed, blank ones dropped, followed by the lines of the notes
\* file, trimmed, blank lines and lines starting with '#' dropped. If E is
\* empty and --allow-empty-notes is not given the run dies at the notes
\* collector with no file written; if E is empty and it is given the notes are
\* exactly the placeholder and the changelog gains exactly one bullet, the
\* placeholder; otherwise the notes are E, each trimmed and non-empty.
C5_NotesCollection ==
    LET E == ExpectedNotes(args)
        left == pc \notin {"ensure", "notes"}
    IN  (~args.notes_file.given \/ args.notes_file.exists) =>
          /\ (E = <<>> /\ ~args.allow_empty_notes /\ left) =>
                /\ pc = "dead" /\ deadAt = "args" /\ status = "fail"
                /\ reason = "provide --note/--notes-file or pass --allow-empty-notes"
                /\ disk = startDisk /\ written = <<>> /\ changed_files = <<>>
          /\ (E = <<>> /\ args.allow_empty_notes /\ left) =>
                /\ PastNotes
                /\ notes = <<Placeholder>>
                /\ F_changelog \in SeqToSet(written) =>
                      Bullets(disk[F_changelog].text)
                         = <<<<"-", SP>> \o Placeholder>> \o Bullets(startDisk[F_changelog].text)
          /\ (E # <<>> /\ left) =>
                /\ PastNotes
                /\ notes = E
                /\ \A i \in 1..Len(notes) : notes[i] # <<>> /\ Strip(notes[i]) = notes[i]

\* C5 witness: --allow-empty-notes with a blank --note and a notes file of
\* comment lines only, the changelog written with the placeholder bullet
C5_Witness ==
    /\ args.allow_empty_notes
    /\ args.note # <<>>
    /\ args.notes_file.given /\ args.notes_file.exists
    /\ \E i \in 1..Len(args.notes_file.text) : args.notes_file.text[i] = "#"
    /\ notes = <<Placeholder>>
    /\ F_changelog \in SeqToSet(written)

\* C5 witness of the other case: --note values and notes-file lines together
C5_BothSources ==
    /\ Len(notes) >= 3
    /\ args.note # <<>> /\ args.notes_file.given
    /\ pc = "done"

IsVersionLine(l) ==
    /\ l # <<>> /\ l[1] = "version"
    /\ LET r == LStrip(Tail(l))
       IN  /\ r # <<>> /\ r[1] = "="
           /\ LET v == LStrip(Tail(r))
              IN  /\ Len(v) >= 3 /\ v[1] = QUOTE /\ v[2] # QUOTE
                  /\ \E k \in 3..Len(v) : v[k] = QUOTE

\* the value of a version line, and what follows its closing quote
ValueOf(l) ==
    LET open == Min({i \in 1..Len(l) : l[i] = QUOTE})
        close == Min({i \in (open + 1)..Len(l) : l[i] = QUOTE})
    IN  [value |-> SubSeq(l, open + 1, close - 1), rest |-> Drop(l, close)]

\* a line that starts an assignment to version and ends before the closing
\* quote of its value
Dangling(l) ==
    /\ l # <<>> /\ l[1] = "version"
    /\ LET r == LStrip(Tail(l))
       IN  \/ r = <<>>
           \/ /\ r[1] = "="
              /\ LET v == LStrip(Tail(r))
                 IN  \/ v = <<>>
                     \/ v[1] = QUOTE /\ \A k \in 2..Len(v) : v[k] # QUOTE

\* manifests whose assignments to version stand on one line each
OneLineValues(t) == \A i \in 1..Len(LinesOf(t)) : ~Dangling(LinesOf(t)[i])

VersionLines(t) == {i \in 1..Len(LinesOf(t)) : IsVersionLine(LinesOf(t)[i])}

PastManifest == pc \notin {"ensure", "notes", "toml"} /\ ~(pc = "dead" /\ deadAt = "args")

IsHeading(l) == Len(l) >= 3 /\ l[1] = "#" /\ l[2] = "#" /\ IsSpace(l[3])

IsHeadingOf(l, version) ==
    /\ IsHeading(l)
    /\ LET r == LStrip(Drop(l, 2))
       IN  r # <<>> /\ r[1] = version /\ (Len(r) = 1 \/ ~IsWord(r[2]))

\* the lines of t that are not blank, without their trailing whitespace
Entries(t) ==
    SelectSeq([i \in 1..Len(LinesOf(t)) |-> RStrip(LinesOf(t)[i])], LAMBDA l : l # <<>>)

\* the section of a version: its heading and one bullet per note
SectionLines(version, ns) ==
    <<<<"#", "#", SP, version>>>> \o [i \in 1..Len(ns) |-> <<"-", SP>> \o ns[i]]

\* the entries of the changelog after the insertion, given those before it
Inserted(es, version, ns) ==
    LET hs == {i \in 1..Len(es) : IsHeading(es[i])}
    IN  IF hs = {} THEN es \o SectionLines(version, ns)
        ELSE Take(es, Min(hs) - 1) \o SectionLines(version, ns) \o Drop(es, Min(hs) - 1)

\* the first run, after its changelog step
PastChangelog == runNo = 1 /\ F_toml \in SeqToSet(written) /\ pc # "changelog"

\* C7: the changelog inserter is fatal if a line of the changelog is a
\* heading of the target version; otherwise the entries (non-blank lines) of
\* the changelog after the insertion are those before it with the section
\* (heading of the version, one bullet per note, in order) placed immediately
\* before the first heading line, wherever that line is, the first line
\* included, and at the end only if there is no heading line.
C7_InsertBeforeFirstHeading ==
    LET before == startDisk[F_changelog].text
        es == Entries(before)
    IN  PastChangelog =>
          IF \E i \in 1..Len(es) : IsHeadingOf(es[i], args.version)
          THEN /\ pc = "dead" /\ deadAt = "edit"
               /\ reason = "CHANGELOG already contains version"
               /\ disk[F_changelog] = startDisk[F_changelog]
          ELSE /\ F_changelog \in SeqToSet(written)
               /\ Entries(disk[F_changelog].text) = Inserted(es, args.version, notes)

\* the part of C7 that the code keeps: the claim for changelogs whose first
\* line is not a heading
InsertedAfterFirstLine ==
    IsHeading(LinesOf(startDisk[F_changelog].text)[1]) \/ C7_InsertBeforeFirstHeading

====
